---- MODULE Spec2Model ----
(***************************************************************************)
(* Maritime-News-Curator, src/app.py: the fetch / normalise / classify     *)
(* pipeline (fetch_articles_for_topic and its helpers) and the session     *)
(* handling of the topic buttons and the Refresh button.                   *)
(*                                                                         *)
(* Text is a sequence of nodes.  A node is one character (a string of      *)
(* length one) or one markup tag (a token such as "<b>" or "<img u1>"):    *)
(* the tokenising done by the HTML parser is not modelled, what the code   *)
(* does with the tokens is.  Time is counted in ticks, TicksPerDay ticks   *)
(* to the day.                                                             *)
(***************************************************************************)
EXTENDS Integers, Sequences, FiniteSets, TLC

VARIABLES
    pc,              \* position of the modelled call / which specification runs
    topic_config,    \* topics.yaml: sequence of [name, include]
    feed_config,     \* feeds.yaml, each source paired with what parsing it yields
    arg_topic,       \* fetch_articles_for_topic: selected_topic
    arg_max_age,     \* fetch_articles_for_topic: max_age_days
    all_articles,    \* fetch_articles_for_topic: the returned list
    raised,          \* whether the call propagated an exception
    session,         \* st.session_state and the sidebar widgets
    last_fetch,      \* history: the most recent fetch call of the session, if any
    last_action,     \* history: the user action of the last rerun
    fn_in,           \* input of the pure function under check
    fn_out           \* its result

vars == <<pc, topic_config, feed_config, arg_topic, arg_max_age, all_articles,
          raised, session, last_fetch, last_action, fn_in, fn_out>>

-----------------------------------------------------------------------------
(* Bounds *)

MaxSources == 2
MaxEntries == 3
TicksPerDay == 2
MaxIdLen == 2
MaxLabels == 3

-----------------------------------------------------------------------------
(* Text *)

RECURSIVE SeqsUpTo(_, _)
SeqsUpTo(S, n) ==
    IF n = 0 THEN {<<>>}
    ELSE LET shorter == SeqsUpTo(S, n - 1)
         IN  shorter \cup {Append(s, x) : s \in {t \in shorter : Len(t) = n - 1}, x \in S}

Tags == {"<b>", "</b>", "<img>", "<img u1>", "<img u2>"}

\* str.lower on one character
LowerChar(c) ==
    CASE c = "L" -> "l" [] c = "N" -> "n" [] c = "G" -> "g"
      [] c = "P" -> "p" [] c = "D" -> "d" [] c = "W" -> "w"
      [] OTHER -> c

\* str.lower
Lower(s) == [i \in 1..Len(s) |-> LowerChar(s[i])]

\* Python's `w in s` on strings
IsSubstring(w, s) ==
    \E i \in 0..(Len(s) - Len(w)) : SubSeq(s, i + 1, i + Len(w)) = w

\* str.strip
RECURSIVE LStrip(_)
LStrip(s) == IF s # <<>> /\ Head(s) = " " THEN LStrip(Tail(s)) ELSE s

RECURSIVE RStrip(_)
RStrip(s) ==
    IF s # <<>> /\ s[Len(s)] = " " THEN RStrip(SubSeq(s, 1, Len(s) - 1)) ELSE s

Strip(s) == RStrip(LStrip(s))

\* BeautifulSoup(s, "html.parser").get_text(): the text nodes, tags dropped
GetText(s) == SelectSeq(s, LAMBDA n : n \notin Tags)

\* a tag token holds both "<" and ">"; the characters of the model hold neither
HasMarkup(s) == \E i \in 1..Len(s) : s[i] \in Tags

clean(text) ==
    IF HasMarkup(text) THEN Strip(GetText(text)) ELSE Strip(text)

-----------------------------------------------------------------------------
(* article_id: SHA-1 taken as collision-free, so the digest is represented *)
(* by the byte string it is computed from.                                 *)

Sha1(bytes) == <<"sha1", bytes>>

article_id(title, link) == Sha1(title \o link)

-----------------------------------------------------------------------------
(* Dates.  A raw date string is one of                                     *)
(*   [kind |-> "none"]                    absent or empty                  *)
(*   [kind |-> "bad"]                     dateutil's parse raises on it    *)
(*   [kind |-> "naive", t |-> wall]       parses, carries no timezone      *)
(*   [kind |-> "aware", t |-> wall, off |-> o]  parses, offset o ticks     *)
(* A datetime is [t |-> wall clock, off |-> utc offset].                   *)

Now == 4 * TicksPerDay

NoDate == [kind |-> "none"]
BadDate == [kind |-> "bad"]
NaiveDate(t) == [kind |-> "naive", t |-> t]
AwareDate(t, o) == [kind |-> "aware", t |-> t, off |-> o]

UtcNow == [t |-> Now, off |-> 0]

\* a faulty variant: a date that does not parse becomes a date long past
parse_date_safe_epoch(s) ==
    IF s.kind = "none" THEN UtcNow
    ELSE IF s.kind = "bad" THEN [t |-> 0 - 100 * TicksPerDay, off |-> 0]
    ELSE IF s.kind = "naive" THEN [t |-> s.t, off |-> 0]
    ELSE [t |-> s.t, off |-> s.off]

\* dparser.parse(s, fuzzy=True) with the fallbacks to datetime.now(timezone.utc); the
\* time that passes between two readings of the clock within one call is below a tick
parse_date_safe(s) ==
    IF s.kind = "none" THEN UtcNow
    ELSE IF s.kind = "bad" THEN UtcNow
    ELSE IF s.kind = "naive" THEN [t |-> s.t, off |-> 0]
    ELSE [t |-> s.t, off |-> s.off]

\* entry.get("published") or entry.get("updated") or ""
RawDate(entry) ==
    IF entry.published.kind # "none" THEN entry.published
    ELSE IF entry.updated.kind # "none" THEN entry.updated
    ELSE NoDate

\* (datetime.now(timezone.utc) - pub_dt) in ticks
AgeTicks(pub_dt) == Now - (pub_dt.t - pub_dt.off)

\* a faulty variant: >= for >
AgeExceedsStrict(pub_dt, max_age_days) == AgeTicks(pub_dt) >= max_age_days * TicksPerDay

\* age_days > max_age_days
AgeExceeds(pub_dt, max_age_days) == AgeTicks(pub_dt) > max_age_days * TicksPerDay

-----------------------------------------------------------------------------
(* extract_image *)

\* src of a tag token, <<>> when it has none
ImgSrc(tag) ==
    CASE tag = "<img u1>" -> <<"u", "1">>
      [] tag = "<img u2>" -> <<"u", "2">>
      [] OTHER -> <<>>

IsImg(n) == n \in {"<img>", "<img u1>", "<img u2>"}

\* soup.find("img") then img.get("src"): the first <img> alone is looked at
FirstImgSrc(markup) ==
    LET imgs == SelectSeq(markup, IsImg)
    IN  IF imgs = <<>> THEN <<>> ELSE ImgSrc(Head(imgs))

\* media[0].get("url") of a non-empty list
FirstUrl(items) == IF items = <<>> THEN <<>> ELSE Head(items).url

\* a faulty variant: thumbnails before media_content
extract_image_thumb_first(entry) ==
    IF FirstUrl(entry.media_thumbnail) # <<>> THEN FirstUrl(entry.media_thumbnail)
    ELSE IF FirstUrl(entry.media_content) # <<>> THEN FirstUrl(entry.media_content)
    ELSE IF entry.summary # <<>> /\ FirstImgSrc(entry.summary) # <<>>
         THEN FirstImgSrc(entry.summary)
    ELSE IF entry.content # <<>> /\ FirstImgSrc(Head(entry.content).value) # <<>>
         THEN FirstImgSrc(Head(entry.content).value)
    ELSE <<>>

extract_image(entry) ==
    IF FirstUrl(entry.media_content) # <<>> THEN FirstUrl(entry.media_content)
    ELSE IF FirstUrl(entry.media_thumbnail) # <<>> THEN FirstUrl(entry.media_thumbnail)
    ELSE IF entry.summary # <<>> /\ FirstImgSrc(entry.summary) # <<>>
         THEN FirstImgSrc(entry.summary)
    ELSE IF entry.content # <<>> /\ FirstImgSrc(Head(entry.content).value) # <<>>
         THEN FirstImgSrc(Head(entry.content).value)
    ELSE <<>>

-----------------------------------------------------------------------------
(* get_domain *)

\* index of the first node of s at or after position i that is in D, else Len(s) + 1
RECURSIVE FindFrom(_, _, _)
FindFrom(s, i, D) ==
    IF i > Len(s) THEN Len(s) + 1
    ELSE IF s[i] \in D THEN i
    ELSE FindFrom(s, i + 1, D)

\* urlparse(u).netloc: after "scheme:", the text between "//" and the next "/", "?" or "#"
UrlNetloc(u) ==
    LET colon == FindFrom(u, 1, {":"})
        rest  == IF colon > 1 /\ colon <= Len(u) THEN SubSeq(u, colon + 1, Len(u)) ELSE u
    IN  IF Len(rest) >= 2 /\ rest[1] = "/" /\ rest[2] = "/"
        THEN SubSeq(rest, 3, FindFrom(rest, 3, {"/", "?", "#"}) - 1)
        ELSE <<>>

\* str.replace(old, ""): every non-overlapping occurrence, left to right
RECURSIVE RemoveAll(_, _)
RemoveAll(s, old) ==
    IF Len(s) < Len(old) \/ old = <<>> THEN s
    ELSE IF SubSeq(s, 1, Len(old)) = old
         THEN RemoveAll(SubSeq(s, Len(old) + 1, Len(s)), old)
         ELSE <<Head(s)>> \o RemoveAll(Tail(s), old)

WwwDot == <<"w", "w", "w", ".">>

get_domain(u) == RemoveAll(Lower(UrlNetloc(u)), WwwDot)

-----------------------------------------------------------------------------
(* Classification *)

\* selected_topic is None
NoTopic == "<None>"

\* a faulty variant: the keyword is not lowered (a case-sensitive match)
WordMatchesCaseSensitive(word, full_text) == IsSubstring(word, Lower(full_text))

\* word.lower() in full_text.lower()
WordMatches(word, full_text) == IsSubstring(Lower(word), Lower(full_text))

\* any(word.lower() in full_text.lower() for word in include_words)
TopicMatches(data, full_text) ==
    \E i \in 1..Len(data.include) : WordMatches(data.include[i], full_text)

\* f"{title} {summary}"
FullText(title, summary) == title \o <<" ">> \o summary

\* the loop over topic_config["topics"].items(), in the mapping's order
matched_topics(cfg, full_text) ==
    LET hits == SelectSeq(cfg, LAMBDA data : TopicMatches(data, full_text))
    IN  [i \in 1..Len(hits) |-> hits[i].name]

InList(x, list) == \E i \in 1..Len(list) : list[i] = x

\* a faulty variant: a call with no topic keeps everything
TopicSelectedOrNone(selected_topic, matched) ==
    selected_topic = NoTopic \/ InList(selected_topic, matched)

\* selected_topic in matched_topics
TopicSelected(selected_topic, matched) == InList(selected_topic, matched)

-----------------------------------------------------------------------------
(* fetch_articles_for_topic *)

IsoFormat(dt) == <<"iso", dt.t, dt.off>>

\* the dict appended for one entry
BuildArticle(entry, title, summary, link, pub_dt, matched) ==
    [id       |-> article_id(title, link),
     title    |-> title,
     summary  |-> summary,
     link     |-> link,
     date     |-> IsoFormat(pub_dt),
     date_dt  |-> pub_dt,
     topics   |-> matched,
     image    |-> extract_image(entry),
     domain   |-> get_domain(link)]

\* a faulty variant: an article whose id is already held is not appended again
AppendArticleDedup(acc, a) ==
    IF \E i \in 1..Len(acc) : acc[i].id = a.id THEN acc ELSE Append(acc, a)

\* all_articles.append({...})
AppendArticle(acc, a) == Append(acc, a)

\* the body of `for entry in d.entries`
ProcessEntry(entry, acc, selected_topic, max_age_days, cfg) ==
    LET title   == clean(entry.title)
        summary == clean(entry.summary)
        link    == Strip(entry.link)
        pub_dt  == parse_date_safe(RawDate(entry))
        matched == matched_topics(cfg, FullText(title, summary))
    IN  IF AgeExceeds(pub_dt, max_age_days) THEN acc
        ELSE IF TopicSelected(selected_topic, matched)
             THEN AppendArticle(acc, BuildArticle(entry, title, summary, link, pub_dt, matched))
             ELSE acc

RECURSIVE ProcessEntries(_, _, _, _, _)
ProcessEntries(entries, acc, selected_topic, max_age_days, cfg) ==
    IF entries = <<>> THEN acc
    ELSE ProcessEntries(Tail(entries),
                        ProcessEntry(Head(entries), acc, selected_topic, max_age_days, cfg),
                        selected_topic, max_age_days, cfg)

(* What feedparser.parse(url) yields for one configured source during the  *)
(* call: [kind |-> "raise"] or [kind |-> "parsed", bozo, entries].         *)
ParseRaises == [kind |-> "raise", bozo |-> 0, entries |-> <<>>]
Parsed(bozo, entries) == [kind |-> "parsed", bozo |-> bozo, entries |-> entries]

\* a faulty variant: no try/except around the parse
ProcessSourceUncaught(d, acc, selected_topic, max_age_days, cfg) ==
    IF d.kind = "raise" THEN [raised |-> TRUE, articles |-> acc]
    ELSE IF d.bozo # 0 /\ d.entries = <<>> THEN [raised |-> FALSE, articles |-> acc]
    ELSE [raised |-> FALSE,
          articles |-> ProcessEntries(d.entries, acc, selected_topic, max_age_days, cfg)]

\* the body of `for url in feeds + google_feeds`
ProcessSource(d, acc, selected_topic, max_age_days, cfg) ==
    IF d.kind = "raise" THEN [raised |-> FALSE, articles |-> acc]
    ELSE IF d.bozo # 0 /\ d.entries = <<>> THEN [raised |-> FALSE, articles |-> acc]
    ELSE [raised |-> FALSE,
          articles |-> ProcessEntries(d.entries, acc, selected_topic, max_age_days, cfg)]

RECURSIVE FetchLoop(_, _, _, _, _)
FetchLoop(sources, acc, selected_topic, max_age_days, cfg) ==
    IF sources = <<>> THEN [raised |-> FALSE, articles |-> acc]
    ELSE LET r == ProcessSource(Head(sources), acc, selected_topic, max_age_days, cfg)
         IN  IF r.raised THEN r
             ELSE FetchLoop(Tail(sources), r.articles, selected_topic, max_age_days, cfg)

\* feeds + google_feeds: one search feed per query, after the direct feeds
Sources(fc) == fc.feeds \o fc.google_news_queries

fetch_articles_for_topic(selected_topic, max_age_days, cfg, fc) ==
    FetchLoop(Sources(fc), <<>>, selected_topic, max_age_days, cfg)

-----------------------------------------------------------------------------
(* Inputs of the pipeline *)

\* topics.yaml: "LNG" on the keyword lng, "Ports" on Port or dock
ConfigKeywords ==
    << [name |-> "LNG",   include |-> << <<"l", "n", "g">> >>],
       [name |-> "Ports", include |-> << <<"P", "o", "r", "t">>, <<"d", "o", "c", "k">> >>] >>

\* topics.yaml: a topic with no keyword and a topic whose keyword is the empty string
ConfigEdge ==
    << [name |-> "LNG",   include |-> << >>],
       [name |-> "Ports", include |-> << <<>>, <<"G", " ", "p">> >>] >>

TopicConfigs == {ConfigKeywords, ConfigEdge}

TopicArgs == {"LNG", "Ports", NoTopic}

\* max_age_days: the slider's low end
MaxAgeArgs == {1, 2}

NoEntryFields ==
    [title |-> <<>>, summary |-> <<>>, link |-> <<>>,
     published |-> NoDate, updated |-> NoDate,
     media_content |-> <<>>, media_thumbnail |-> <<>>, content |-> <<>>]

LinkA == <<"h", ":", "/", "/", "w", "w", "w", ".", "a", "/", "p">>
LinkB == <<" ", "h", ":", "/", "/", "W", "w", "w", ".", "b">>

\* " LNG port", one day old to the tick, with a media attachment
EntryLngPort ==
    [NoEntryFields EXCEPT
        !.title = <<" ", "L", "N", "G", " ", "p", "o", "r", "t">>,
        !.summary = <<"<b>", "n", "e", "w", "</b>">>,
        !.link = LinkA,
        !.published = NaiveDate(Now - TicksPerDay),
        !.media_content = << [url |-> <<"m", "1">>] >>]

\* "Dock", one tick older than a day, dated by `updated` only
EntryDock ==
    [NoEntryFields EXCEPT
        !.title = <<"D", "o", "c", "k">>,
        !.summary = <<"<img u1>", "s">>,
        !.link = LinkB,
        !.updated = AwareDate(Now - TicksPerDay, 1)]

EntryPool == {EntryLngPort, EntryDock}

Titles ==
    { <<>>,
      <<"L", "N", "G">>,
      <<"l", "n">>,
      <<"<b>", "P", "O", "R", "T", "</b>", " ">> }

Summaries ==
    { <<>>,
      <<"g", " ", "d", "o", "c", "k">>,
      <<"<img u2>", "s", "p", "o", "r", "t", "s">> }

Links == { <<>>, LinkB }

PublishedDates ==
    { NoDate, BadDate,
      NaiveDate(Now - TicksPerDay),
      NaiveDate(Now - TicksPerDay - 1),
      AwareDate(Now - 2 * TicksPerDay + 1, 1) }

UpdatedDates == { NoDate, NaiveDate(Now + 1), NaiveDate(Now - 3 * TicksPerDay) }

\* entries varied field by field
EntryUniverse ==
    { [NoEntryFields EXCEPT !.title = t, !.summary = s, !.link = l,
                            !.published = p, !.updated = u]
      : t \in Titles, s \in Summaries, l \in Links,
        p \in PublishedDates, u \in UpdatedDates }

\* what parsing one source may yield: at most n entries, drawn from the pool
SourceOutcomes(n) ==
    {ParseRaises}
    \cup {Parsed(1, <<>>)}
    \cup {Parsed(0, es) : es \in SeqsUpTo(EntryPool, n)}

\* the lists of at most n sources with at most budget entries in all
RECURSIVE SourceLists(_, _)
SourceLists(n, budget) ==
    IF n = 0 THEN {<<>>}
    ELSE {<<>>} \cup
         UNION { { <<d>> \o rest : rest \in SourceLists(n - 1, budget - Len(d.entries)) }
                 : d \in SourceOutcomes(budget) }

\* feeds.yaml with at most MaxSources sources and MaxEntries entries in all; the first
\* k sources are direct feeds, the others search queries
FeedConfigs ==
    UNION { { [feeds |-> SubSeq(l, 1, k), google_news_queries |-> SubSeq(l, k + 1, Len(l))]
              : k \in 0..Len(l) } : l \in SourceLists(MaxSources, MaxEntries) }

\* one feed, one entry drawn from the universe
SingleEntryConfigs ==
    { [feeds |-> << Parsed(b, <<e>>) >>, google_news_queries |-> <<>>]
      : b \in {0, 1}, e \in EntryUniverse }

\* st.session_state before any click, and the sidebar's defaults
NoSession ==
    [selected_topic |-> NoTopic, articles |-> <<>>, pages |-> {},
     sort_by |-> "Newest first", keyword |-> <<>>]

-----------------------------------------------------------------------------
(* Spec: one call of fetch_articles_for_topic on any configuration *)

Init ==
    /\ pc = "call"
    /\ \/ /\ topic_config = ConfigKeywords
          /\ feed_config \in FeedConfigs
       \/ /\ topic_config \in TopicConfigs
          /\ feed_config \in SingleEntryConfigs
    /\ arg_topic \in TopicArgs
    /\ arg_max_age \in MaxAgeArgs
    /\ all_articles = <<>>
    /\ raised = FALSE
    /\ session = NoSession
    /\ last_fetch = <<>>
    /\ last_action = "none"
    /\ fn_in = <<>>
    /\ fn_out = <<>>

Fetch ==
    /\ pc = "call"
    /\ LET r == fetch_articles_for_topic(arg_topic, arg_max_age, topic_config, feed_config)
       IN  /\ all_articles' = r.articles
           /\ raised' = r.raised
    /\ pc' = "done"
    /\ UNCHANGED <<topic_config, feed_config, arg_topic, arg_max_age,
                   session, last_fetch, last_action, fn_in, fn_out>>

Next == Fetch

Spec == Init /\ [][Next]_vars

-----------------------------------------------------------------------------
(* What the claims speak of, stated apart from the loop *)

\* k is a substring of t when case is ignored
CaseInsensitiveIn(k, t) ==
    \E i \in 0..(Len(t) - Len(k)) :
        \A j \in 1..Len(k) : LowerChar(t[i + j]) = LowerChar(k[j])

\* the configured topics with a keyword inside title + " " + summary
MatchedSet(cfg, title, summary) ==
    { cfg[n].name : n \in { m \in 1..Len(cfg) :
        \E w \in 1..Len(cfg[m].include) :
            CaseInsensitiveIn(cfg[m].include[w], title \o <<" ">> \o summary) } }

EntryTopics(e) == MatchedSet(topic_config, clean(e.title), clean(e.summary))

\* now minus the normalised timestamp, in ticks
EntryAge(e) == AgeTicks(parse_date_safe(RawDate(e)))

Failing(d) == d.kind = "raise" \/ (d.bozo # 0 /\ d.entries = <<>>)

RECURSIVE Flatten(_)
Flatten(sources) ==
    IF sources = <<>> THEN <<>> ELSE Head(sources).entries \o Flatten(Tail(sources))

\* the entries of the sources that parsed: direct feeds first, then the query feeds
EncounteredEntries ==
    Flatten(SelectSeq(feed_config.feeds \o feed_config.google_news_queries,
                      LAMBDA d : ~Failing(d)))

ArticleOf(e) ==
    BuildArticle(e, clean(e.title), clean(e.summary), Strip(e.link),
                 parse_date_safe(RawDate(e)),
                 matched_topics(topic_config, FullText(clean(e.title), clean(e.summary))))

Returned(a) == \E i \in 1..Len(all_articles) : all_articles[i] = a

SeqToSet(list) == {list[i] : i \in 1..Len(list)}

\* C1: the call returns one Article per entry of the parsed sources that has the target
\* among its matched topics and an age within max_age_days, in the order the entries
\* are met (direct feeds, then query feeds; feed order inside a source), neither sorted
\* nor deduplicated.
C1_FetchContract ==
    pc = "done" =>
        LET kept == SelectSeq(EncounteredEntries,
                        LAMBDA e : /\ arg_topic \in EntryTopics(e)
                                   /\ EntryAge(e) <= arg_max_age * TicksPerDay)
        IN  all_articles = [i \in 1..Len(kept) |-> ArticleOf(kept[i])]

\* the same story returned twice, from a direct feed and from a query feed, while
\* another entry was filtered out
C1_Witness ==
    /\ pc = "done"
    /\ feed_config.feeds # <<>>
    /\ feed_config.google_news_queries # <<>>
    /\ Len(all_articles) >= 2
    /\ all_articles[1] = all_articles[2]
    /\ Len(all_articles) < Len(EncounteredEntries)

\* C2: every returned Article has a non-empty topics list holding exactly the configured
\* topics with a keyword that is a case-insensitive substring of title + " " + summary.
C2_TopicsExact ==
    pc = "done" =>
        \A i \in 1..Len(all_articles) :
            LET a == all_articles[i]
            IN  /\ a.topics # <<>>
                /\ SeqToSet(a.topics) = MatchedSet(topic_config, a.title, a.summary)
                /\ Cardinality(SeqToSet(a.topics)) = Len(a.topics)

\* an Article tagged with the target and with another topic, matched across case
C2_Witness ==
    /\ pc = "done"
    /\ arg_topic = "LNG"
    /\ \E i \in 1..Len(all_articles) :
          /\ all_articles[i].topics = <<"LNG", "Ports">>
          /\ ~IsSubstring(<<"l", "n", "g">>, all_articles[i].title \o all_articles[i].summary)

\* the configured sources with the failing ones taken out
ValidOnly(fc) ==
    [feeds |-> SelectSeq(fc.feeds, LAMBDA d : ~Failing(d)),
     google_news_queries |-> SelectSeq(fc.google_news_queries, LAMBDA d : ~Failing(d))]

\* C3: sources that fail (the parse raises, or bozo is set and there are no entries) raise
\* nothing to the caller, and the call returns what the other sources yield on their own.
C3_SourceIsolation ==
    pc = "done" =>
        /\ raised = FALSE
        /\ all_articles =
              fetch_articles_for_topic(arg_topic, arg_max_age, topic_config,
                                       ValidOnly(feed_config)).articles

\* a source whose parse raises, then a source whose articles are returned
C3_Witness ==
    /\ pc = "done"
    /\ Len(feed_config.feeds) = 2
    /\ feed_config.feeds[1].kind = "raise"
    /\ ~Failing(feed_config.feeds[2])
    /\ all_articles # <<>>

\* the entries that pass the age cutoff
AgePassing ==
    SelectSeq(EncounteredEntries, LAMBDA e : EntryAge(e) <= arg_max_age * TicksPerDay)

\* C4 as claimed: with no target topic every entry within the age cutoff is kept, the
\* ones with no topic match tagged "uncategorized".
C4_KeepsAllWhenNoTopic ==
    (pc = "done" /\ arg_topic = NoTopic) =>
        /\ Len(all_articles) = Len(AgePassing)
        /\ \A i \in 1..Len(all_articles) :
              EntryTopics(AgePassing[i]) = {} => all_articles[i].topics = <<"uncategorized">>

\* C4 amended: with no target topic the call returns the empty list; nothing is kept
\* and nothing is tagged "uncategorized".
C4_EmptyWhenNoTopic ==
    (pc = "done" /\ arg_topic = NoTopic) => all_articles = <<>>

\* a call with no topic on a feed whose entry is within the age cutoff and matches no topic
C4_Witness ==
    /\ pc = "done"
    /\ arg_topic = NoTopic
    /\ AgePassing # <<>>
    /\ \E i \in 1..Len(AgePassing) : EntryTopics(AgePassing[i]) = {}

\* C5: an entry aged exactly max_age_days passes the age filter (and is returned when it
\* matches the target); an entry older than max_age_days is never returned, whatever its
\* topics.
C5_AgeBoundary ==
    pc = "done" =>
        /\ \A i \in 1..Len(all_articles) :
              AgeTicks(all_articles[i].date_dt) <= arg_max_age * TicksPerDay
        /\ \A i \in 1..Len(EncounteredEntries) :
              LET e == EncounteredEntries[i]
              IN  /\ (EntryAge(e) = arg_max_age * TicksPerDay /\ arg_topic \in EntryTopics(e))
                        => Returned(ArticleOf(e))
                  /\ EntryAge(e) > arg_max_age * TicksPerDay => ~Returned(ArticleOf(e))

\* an entry aged one day to the tick is returned while an entry one tick older, which
\* matches the target too, is not
C5_Witness ==
    /\ pc = "done"
    /\ arg_max_age = 1
    /\ \E i \in 1..Len(all_articles) : AgeTicks(all_articles[i].date_dt) = TicksPerDay
    /\ \E i \in 1..Len(EncounteredEntries) :
          /\ EntryAge(EncounteredEntries[i]) = TicksPerDay + 1
          /\ arg_topic \in EntryTopics(EncounteredEntries[i])
          /\ ~Returned(ArticleOf(EncounteredEntries[i]))

\* neither date field is set, or the one taken does not parse
DateAnomaly(e) == RawDate(e).kind \in {"none", "bad"}

NoLink(e) == e.link = <<>>

NoImage(e) ==
    /\ e.media_content = <<>>
    /\ e.media_thumbnail = <<>>
    /\ \A i \in 1..Len(e.summary) : ~IsImg(e.summary[i])
    /\ e.content = <<>>

\* C6: an entry that matches the target and has a missing or unparseable date, no image
\* or no link is returned all the same, with the current time, "" and "" in their place,
\* and nothing is raised (an entry whose date does parse still has to pass the age filter).
C6_AnomalyKeepsEntry ==
    pc = "done" =>
        /\ raised = FALSE
        /\ \A i \in 1..Len(EncounteredEntries) :
              LET e == EncounteredEntries[i]
              IN  ( /\ arg_topic \in EntryTopics(e)
                    /\ DateAnomaly(e) \/ EntryAge(e) <= arg_max_age * TicksPerDay
                    /\ DateAnomaly(e) \/ NoLink(e) \/ NoImage(e) )
                  => \E k \in 1..Len(all_articles) :
                        LET a == all_articles[k]
                        IN  /\ a.title = clean(e.title)
                            /\ a.summary = clean(e.summary)
                            /\ DateAnomaly(e) => a.date_dt = UtcNow
                            /\ ~DateAnomaly(e) => AgeTicks(a.date_dt) = EntryAge(e)
                            /\ NoLink(e) => a.link = <<>>
                            /\ ~NoLink(e) => a.link = Strip(e.link)
                            /\ NoImage(e) => a.image = <<>>
                            /\ ~NoImage(e) => a.image # <<>>

\* an entry with an unparseable date, no link and no image, returned with the defaults
C6_Witness ==
    /\ pc = "done"
    /\ Len(feed_config.feeds) = 1
    /\ Len(feed_config.feeds[1].entries) = 1
    /\ LET e == feed_config.feeds[1].entries[1]
       IN  /\ e.published = BadDate
           /\ e.updated = NaiveDate(Now - 3 * TicksPerDay)
           /\ NoLink(e)
           /\ NoImage(e)
    /\ Len(all_articles) = 1
    /\ all_articles[1].date_dt = UtcNow
    /\ all_articles[1].link = <<>>
    /\ all_articles[1].image = <<>>

-----------------------------------------------------------------------------
(* SpecImage: extract_image on entries varied in their four image carriers *)

MediaContents ==
    { <<>>,
      << [url |-> <<"m", "1">>] >>,
      << [url |-> <<>>], [url |-> <<"m", "2">>] >> }

MediaThumbnails ==
    { <<>>,
      << [url |-> <<"t", "1">>] >>,
      << [url |-> <<>>] >> }

ImageSummaries ==
    { <<>>,
      <<"s">>,
      <<"<b>", "s", "</b>", "<img u1>", "<img u2>">>,
      <<"<img>", "<img u2>">> }

ContentBlocks ==
    { <<>>,
      << [value |-> <<"<img u2>">>] >>,
      << [value |-> <<"s">>], [value |-> <<"<img u1>">>] >> }

ImageEntries ==
    { [NoEntryFields EXCEPT !.media_content = m, !.media_thumbnail = t,
                            !.summary = s, !.content = c]
      : m \in MediaContents, t \in MediaThumbnails,
        s \in ImageSummaries, c \in ContentBlocks }

InitImage ==
    /\ pc = "image"
    /\ fn_in \in ImageEntries
    /\ fn_out = <<>>
    /\ topic_config = <<>>
    /\ feed_config = <<>>
    /\ arg_topic = NoTopic
    /\ arg_max_age = 0
    /\ all_articles = <<>>
    /\ raised = FALSE
    /\ session = NoSession
    /\ last_fetch = <<>>
    /\ last_action = "none"

ExtractImage ==
    /\ pc = "image"
    /\ fn_out' = extract_image(fn_in)
    /\ pc' = "image_done"
    /\ UNCHANGED <<topic_config, feed_config, arg_topic, arg_max_age, all_articles,
                   raised, session, last_fetch, last_action, fn_in>>

NextImage == ExtractImage

SpecImage == InitImage /\ [][NextImage]_vars

\* the src of the first <img> of a markup, "" when there is no <img> or it has no src
SrcOfFirstImg(markup) ==
    IF \E i \in 1..Len(markup) : IsImg(markup[i])
    THEN ImgSrc(markup[CHOOSE i \in 1..Len(markup) :
                    IsImg(markup[i]) /\ \A j \in 1..(i - 1) : ~IsImg(markup[j])])
    ELSE <<>>

\* what each strategy yields, in the fixed order
Strategies(e) ==
    << IF e.media_content = <<>> THEN <<>> ELSE e.media_content[1].url,
       IF e.media_thumbnail = <<>> THEN <<>> ELSE e.media_thumbnail[1].url,
       SrcOfFirstImg(e.summary),
       IF e.content = <<>> THEN <<>> ELSE SrcOfFirstImg(e.content[1].value) >>

\* C7: extract_image returns what the first strategy that yields a URL yields, in the order
\* media_content[0].url, media_thumbnail[0].url, first <img> of the summary, first <img> of
\* the first content block, and "" when none yields one.
C7_ImagePriority ==
    pc = "image_done" =>
        LET found == SelectSeq(Strategies(fn_in), LAMBDA u : u # <<>>)
        IN  fn_out = IF found = <<>> THEN <<>> ELSE Head(found)

\* a media attachment, a thumbnail and an <img> in the summary: the attachment's URL wins
C7_Witness ==
    /\ pc = "image_done"
    /\ fn_in.media_content = << [url |-> <<"m", "1">>] >>
    /\ fn_in.media_thumbnail = << [url |-> <<"t", "1">>] >>
    /\ SrcOfFirstImg(fn_in.summary) = <<"u", "1">>
    /\ fn_out = <<"m", "1">>

-----------------------------------------------------------------------------
(* SpecId: article_id on two (title, link) pairs *)

IdChars == {"a", "b"}

IdStrings == SeqsUpTo(IdChars, MaxIdLen)

InitId ==
    /\ pc = "id"
    /\ fn_in \in [first : [title : IdStrings, link : IdStrings],
                  second : [title : IdStrings, link : IdStrings]]
    /\ fn_out = <<>>
    /\ topic_config = <<>>
    /\ feed_config = <<>>
    /\ arg_topic = NoTopic
    /\ arg_max_age = 0
    /\ all_articles = <<>>
    /\ raised = FALSE
    /\ session = NoSession
    /\ last_fetch = <<>>
    /\ last_action = "none"

ArticleIds ==
    /\ pc = "id"
    /\ fn_out' = << article_id(fn_in.first.title, fn_in.first.link),
                    article_id(fn_in.second.title, fn_in.second.link) >>
    /\ pc' = "id_done"
    /\ UNCHANGED <<topic_config, feed_config, arg_topic, arg_max_age, all_articles,
                   raised, session, last_fetch, last_action, fn_in>>

NextId == ArticleIds

SpecId == InitId /\ [][NextId]_vars

\* C8: article_id gives equal ids to equal (title, link) pairs and different ids to pairs
\* that differ in the title or in the link (SHA-1 taken as collision-free).
C8_FingerprintInjective ==
    pc = "id_done" =>
        /\ fn_in.first = fn_in.second => fn_out[1] = fn_out[2]
        /\ fn_in.first # fn_in.second => fn_out[1] # fn_out[2]

-----------------------------------------------------------------------------
(* SpecDomain: get_domain on links h://<host><path>, the host made of at most *)
(* MaxLabels labels before its last label, "c"                               *)

Labels == { <<"w", "w", "w">>, <<"W", "w", "w">>, <<"a">>, <<"a", "w", "w", "w">> }

RECURSIVE JoinLabels(_)
JoinLabels(labels) ==
    IF labels = <<>> THEN <<"c">> ELSE Head(labels) \o <<".">> \o JoinLabels(Tail(labels))

Hosts == { JoinLabels(ls) : ls \in SeqsUpTo(Labels, MaxLabels) }

Paths == { <<>>, <<"/", "w", "w", "w", ".">> }

InitDomain ==
    /\ pc = "domain"
    /\ fn_in \in [host : Hosts, path : Paths]
    /\ fn_out = <<>>
    /\ topic_config = <<>>
    /\ feed_config = <<>>
    /\ arg_topic = NoTopic
    /\ arg_max_age = 0
    /\ all_articles = <<>>
    /\ raised = FALSE
    /\ session = NoSession
    /\ last_fetch = <<>>
    /\ last_action = "none"

GetDomain ==
    /\ pc = "domain"
    /\ fn_out' = get_domain(<<"h", ":", "/", "/">> \o fn_in.host \o fn_in.path)
    /\ pc' = "domain_done"
    /\ UNCHANGED <<topic_config, feed_config, arg_topic, arg_max_age, all_articles,
                   raised, session, last_fetch, last_action, fn_in>>

NextDomain == GetDomain

SpecDomain == InitDomain /\ [][NextDomain]_vars

\* C9: the domain is the link's host, lowercased, with a leading "www." removed and any
\* other "www." left in place.
C9_LeadingWwwOnly ==
    pc = "domain_done" =>
        LET h == [i \in 1..Len(fn_in.host) |-> LowerChar(fn_in.host[i])]
        IN  fn_out = IF Len(h) >= 4 /\ SubSeq(h, 1, 4) = <<"w", "w", "w", ".">>
                     THEN SubSeq(h, 5, Len(h))
                     ELSE h

-----------------------------------------------------------------------------
(* SpecSession: the script's reruns.  Each rerun serves one user action: a  *)
(* topic button, the Refresh button, or a change of a sidebar or pager       *)
(* widget.  What the feeds hold is drawn afresh at every fetch.              *)

\* all_topics
AllTopics(cfg) == {cfg[i].name : i \in 1..Len(cfg)}

\* the feeds as a fetch of the session may find them
SessionFeedConfigs ==
    { [feeds |-> l, google_news_queries |-> <<>>] : l \in SourceLists(1, 2) }

SortOrders == {"Newest first", "Oldest first", "Title A-Z"}

Keywords == { <<>>, <<"l", "n", "g">> }

\* a faulty variant: the button stores the articles and leaves the selected topic as it was
OnTopicButtonKeepsTopic(state, topic, result) == [state EXCEPT !.articles = result]

\* lines 248-249: the clicked topic and its fetch result are stored
OnTopicButton(state, topic, result) ==
    [state EXCEPT !.selected_topic = topic, !.articles = result]

\* `refresh_clicked and selected_topic`: None is falsy
RefreshFetches(state) == state.selected_topic # NoTopic

\* line 257: the fetch result is stored
OnRefresh(state, result) == [state EXCEPT !.articles = result]

\* lines 310-312: the pager, drawn when there are articles, creates the topic's page key
RenderPager(state) ==
    IF state.articles # <<>>
    THEN [state EXCEPT !.pages = @ \cup {state.selected_topic}]
    ELSE state

InitSession ==
    /\ pc = "session"
    /\ topic_config = ConfigKeywords
    /\ session = NoSession
    /\ last_fetch = <<>>
    /\ last_action = "none"
    /\ feed_config = <<>>
    /\ arg_topic = NoTopic
    /\ arg_max_age = 0
    /\ all_articles = <<>>
    /\ raised = FALSE
    /\ fn_in = <<>>
    /\ fn_out = <<>>

SessionFrame ==
    UNCHANGED <<pc, topic_config, feed_config, arg_topic, arg_max_age, all_articles,
                raised, fn_in, fn_out>>

TopicClick ==
    /\ pc = "session"
    /\ \E topic \in AllTopics(topic_config), max_age_days \in MaxAgeArgs,
          fc \in SessionFeedConfigs :
          LET result == fetch_articles_for_topic(topic, max_age_days, topic_config, fc).articles
          IN  /\ session' = RenderPager(OnTopicButton(session, topic, result))
              /\ last_fetch' = << [topic |-> topic, result |-> result] >>
    /\ last_action' = "topic"
    /\ SessionFrame

RefreshClick ==
    /\ pc = "session"
    /\ \E max_age_days \in MaxAgeArgs, fc \in SessionFeedConfigs :
          IF RefreshFetches(session)
          THEN LET result == fetch_articles_for_topic(session.selected_topic, max_age_days,
                                                      topic_config, fc).articles
               IN  /\ session' = RenderPager(OnRefresh(session, result))
                   /\ last_fetch' = << [topic |-> session.selected_topic, result |-> result] >>
          ELSE /\ session' = RenderPager(session)
               /\ last_fetch' = last_fetch
    /\ last_action' = "refresh"
    /\ SessionFrame

\* a rerun for a change of the sort order or of the keyword filter, or for a pager widget
ViewChange ==
    /\ pc = "session"
    /\ \E sort_by \in SortOrders, keyword \in Keywords :
          session' = RenderPager([session EXCEPT !.sort_by = sort_by, !.keyword = keyword])
    /\ last_fetch' = last_fetch
    /\ last_action' = "view"
    /\ SessionFrame

NextSession == TopicClick \/ RefreshClick \/ ViewChange

SpecSession == InitSession /\ [][NextSession]_vars

\* the working set is the result of the latest fetch, made for the selected topic
WorkingSetIsLastFetch ==
    /\ last_fetch = <<>> => (session.articles = <<>> /\ session.selected_topic = NoTopic)
    /\ last_fetch # <<>> =>
          /\ session.articles = last_fetch[1].result
          /\ session.selected_topic = last_fetch[1].topic
    /\ \A i \in 1..Len(session.articles) :
          InList(session.selected_topic, session.articles[i].topics)

\* a Refresh with no topic selected, or a view change, leaves the working set as it was
NoFetchKeepsWorkingSet ==
    (last_action' = "view" \/ (last_action' = "refresh" /\ session.selected_topic = NoTopic))
        => session'.articles = session.articles

\* C10: the working set starts empty and is always the result of the latest fetch, made for
\* the selected topic, so each of its Articles lists that topic; a Refresh with no topic
\* selected and any filter, sort or page change leave it unchanged.
C10_WorkingSet ==
    /\ (session.articles = <<>> /\ last_fetch = <<>>)
    /\ []WorkingSetIsLastFetch
    /\ [][NoFetchKeepsWorkingSet]_vars

\* after a click on another topic and a view change, the working set still holds the
\* articles fetched for the topic now selected
C10_Witness ==
    /\ pc = "session"
    /\ last_action = "view"
    /\ session.selected_topic = "Ports"
    /\ session.pages = {"LNG", "Ports"}
    /\ Len(session.articles) = 2
    /\ session.sort_by = "Oldest first"

====
